---- MODULE Spec2Model ----
(***************************************************************************)
(* A model of game.py: the Player drag controller and keyboard impulses,   *)
(* the level loader, the camera-relative coordinate transforms and the     *)
(* frame loop of main().                                                   *)
(*                                                                         *)
(* Numbers.  Python floats are modelled as exact rationals <<n, d>> with   *)
(* d > 0 and gcd(n, d) = 1; a 2D vector is a pair of rationals.            *)
(* Angles are counted in quarter turns so that Vec2d.rotated is exact.     *)
(* The coordinate transforms are the exception: they compute in binary64   *)
(* with its rounding (see "binary64 arithmetic").                          *)
(*                                                                         *)
(* Exceptions.  No statement of game.py catches an exception, so one that  *)
(* is raised ends the program: err records it and no action is enabled     *)
(* afterwards.  The state it leaves is the state at the raise.             *)
(*                                                                         *)
(* The physics engine.  A step moves the dynamic player body to any        *)
(* position, velocity and angle of bounded sets, and moves a kinematic     *)
(* body that is in the space by velocity * dt, leaving its velocity.       *)
(*                                                                         *)
(* Specifications.  Spec: the Player's methods called in any order.        *)
(* SpecXform: the two coordinate transforms.  SpecLevel: main() up to the  *)
(* end of load_level.  SpecMain: main() with its frame loop.               *)
(***************************************************************************)
EXTENDS Integers, Sequences, FiniteSets, TLC

VARIABLES
    body,            \* Player.body: [position, velocity, angle]
    mouse_body,      \* Player.mouse_body (kinematic): [position, velocity]
    drag_joint,      \* Player.drag_joint: NoJoint (None) or a reference into joints
    prev_mouse_pos,  \* Player.prev_mouse_pos: None or a vector
    space,           \* pymunk.Space: [bodies, shapes, constraints]
    joints,          \* the PivotJoint objects constructed so far, by reference
    err,             \* "none", or the exception that ended the program
    call,            \* the last operation invoked, its arguments, the one before
    hist,            \* history of the calls (see NoHist)
    nops,            \* number of operations invoked so far
    level_file,      \* the level file handed to load_level
    segments,        \* main: the list load_level returned
    pc,              \* main: the statement to run next
    frame_dt,        \* main: dt, the frame delta
    events,          \* main: the events of pygame.event.get() not yet handled
    camera_pos,      \* main: camera_pos
    screen,          \* main: the size of the display surface
    running,         \* main: running
    frameno,         \* main: number of the frame being run (from 1)
    done,            \* main: the steps the current frame has completed, in order
    rect_center,     \* Player.rect.center as last rendered
    xf               \* a coordinate transform being evaluated

pvars == <<body, mouse_body, drag_joint, prev_mouse_pos, space, joints, err>>
mvars == <<level_file, segments, pc, frame_dt, events, camera_pos, screen, running,
           frameno, done, rect_center>>
vars  == <<body, mouse_body, drag_joint, prev_mouse_pos, space, joints, err,
           call, hist, nops, mvars, xf>>

\* None, for a field that otherwise holds a vector
None == <<>>
\* None, for a field that otherwise holds a reference to a joint (1, 2, ...)
NoJoint == 0

----------------------------------------------------------------------------
(* Rational arithmetic                                                     *)

Abs(n) == IF n < 0 THEN -n ELSE n

RECURSIVE Gcd(_, _)
Gcd(a, b) == IF b = 0 THEN a ELSE Gcd(b, a % b)

Rat(n, d) ==
    LET g == Gcd(Abs(n), Abs(d))
        s == IF d < 0 THEN -1 ELSE 1
    IN  <<(s * n) \div g, (s * d) \div g>>

R(n) == <<n, 1>>

RAdd(a, b) == Rat(a[1] * b[2] + b[1] * a[2], a[2] * b[2])
RSub(a, b) == Rat(a[1] * b[2] - b[1] * a[2], a[2] * b[2])
RMul(a, b) == Rat(a[1] * b[1], a[2] * b[2])
RDiv(a, b) == Rat(a[1] * b[2], a[2] * b[1])
RLe(a, b)  == a[1] * b[2] <= b[1] * a[2]
RLt(a, b)  == a[1] * b[2] < b[1] * a[2]

V(x, y) == <<R(x), R(y)>>
VAdd(p, q) == <<RAdd(p[1], q[1]), RAdd(p[2], q[2])>>
VSub(p, q) == <<RSub(p[1], q[1]), RSub(p[2], q[2])>>
VScale(p, k) == <<RMul(p[1], k), RMul(p[2], k)>>

\* Vec2d.rotated by q quarter turns (counter-clockwise)
Rotated(p, q) ==
    CASE q % 4 = 0 -> p
      [] q % 4 = 1 -> <<RSub(R(0), p[2]), p[1]>>
      [] q % 4 = 2 -> <<RSub(R(0), p[1]), RSub(R(0), p[2])>>
      [] q % 4 = 3 -> <<p[2], RSub(R(0), p[1])>>

----------------------------------------------------------------------------
(* Program constants                                                       *)

SCREEN_WIDTH == 800
SCREEN_HEIGHT == 600
LEVEL_HEIGHT == 1200
PLAYER_SIZE == 50
IMPULSE_STRENGTH == 50
HALF_IMPULSE == Rat(IMPULSE_STRENGTH, 2)
DRAG_MAX_FORCE == 10000
\* the substitute for a frame delta <= 0: 1e-6
EPSILON_DT == Rat(1, 1000000)

----------------------------------------------------------------------------
(* Bounds of the model                                                     *)

MaxOps == 4

\* pointer positions handed to start_drag / update_drag
Points == {V(100, 1100), V(115, 1120), V(126, 1100), V(140, 1100)}
\* frame deltas handed to update_drag: negative, zero, 16 ms
Dts == {Rat(-1, 100), R(0), Rat(2, 125)}
\* outcomes of a physics step for the dynamic player body
StepPositions == {V(100, 1100), V(110, 1100)}
StepVelocities == {V(0, 0), V(0, -15)}
StepAngles == {0, 1}
\* the frame delta of a physics step: 16 ms
StepDt == Rat(2, 125)
\* key snapshots handed to handle_input
KeySets == SUBSET {"a", "d", "w", "s"}

----------------------------------------------------------------------------
(* pymunk collaborators, as far as the program relies on them              *)

\* Sign of shape.point_query(pos).distance for the player's circle, which is
\* centred on the body origin with radius PLAYER_SIZE / 2:
\* distance = |pos - body.position| - radius.
point_query_sign(pos) ==
    LET d  == VSub(pos, body.position)
        sq == RAdd(RMul(d[1], d[1]), RMul(d[2], d[2]))
        r  == Rat(PLAYER_SIZE, 2)
        r2 == RMul(r, r)
    IN  IF RLt(r2, sq) THEN 1 ELSE IF sq = r2 THEN 0 ELSE -1

PivotJoint(anchor_b) ==
    [a |-> "mouse_body", b |-> "body",
     anchor_a |-> V(0, 0), anchor_b |-> anchor_b, max_force |-> 0]

\* Space.add(bodies..., constraints...): bodies are added first, and adding a
\* body that is already in the space raises before anything is added.
SpaceAdd(sp, bodies, constraints) ==
    IF bodies \cap sp.bodies # {}
    THEN [space |-> sp, err |-> "AssertionError"]
    ELSE [space |-> [sp EXCEPT !.bodies = @ \cup bodies,
                               !.constraints = @ \cup constraints],
          err |-> "none"]

\* Space.remove(constraint, body): the objects are removed in the order
\* given, and removing one that is not in the space raises.
SpaceRemove(sp, constraints, bodies) ==
    IF ~(constraints \subseteq sp.constraints)
    THEN [space |-> sp, err |-> "AssertionError"]
    ELSE IF ~(bodies \subseteq sp.bodies)
    THEN [space |-> [sp EXCEPT !.constraints = @ \ constraints],
          err |-> "AssertionError"]
    ELSE [space |-> [sp EXCEPT !.bodies = @ \ bodies,
                               !.constraints = @ \ constraints],
          err |-> "none"]

\* Body.apply_impulse_at_world_point(impulse, point) on a body of mass 1 with
\* point = body.position: the lever arm is zero, so only the linear velocity
\* changes, by impulse / mass.
apply_impulse_at_world_point(b, impulse, point) ==
    [b EXCEPT !.velocity = VAdd(@, impulse)]

----------------------------------------------------------------------------
(* class Player                                                            *)

\* the circle shape of the player
PlayerShape ==
    [kind |-> "Circle", body |-> "body", radius |-> Rat(PLAYER_SIZE, 2),
     friction |-> Rat(7, 10)]

PlayerInit ==
    /\ body = [position |-> V(100, LEVEL_HEIGHT - 100), velocity |-> V(0, 0),
               angle |-> 0]
    /\ space = [bodies |-> {"body"}, shapes |-> <<PlayerShape>>, constraints |-> {}]
    /\ mouse_body = [position |-> V(0, 0), velocity |-> V(0, 0)]
    /\ drag_joint = NoJoint
    /\ prev_mouse_pos = None
    /\ joints = <<>>
    /\ err = "none"

\* handle_input with the impulses taken in the body's local frame
HandleInputBody_local(b, keys) ==
    LET imp(j) == Rotated(j, b.angle)
        b1 == IF "a" \in keys
              THEN apply_impulse_at_world_point(b, imp(<<RSub(R(0), HALF_IMPULSE), R(0)>>), b.position)
              ELSE b
        b2 == IF "d" \in keys
              THEN apply_impulse_at_world_point(b1, imp(<<HALF_IMPULSE, R(0)>>), b1.position)
              ELSE b1
        b3 == IF "w" \in keys
              THEN apply_impulse_at_world_point(b2, imp(<<R(0), HALF_IMPULSE>>), b2.position)
              ELSE b2
        b4 == IF "s" \in keys
              THEN apply_impulse_at_world_point(b3, imp(<<R(0), R(-IMPULSE_STRENGTH)>>), b3.position)
              ELSE b3
    IN  b4

\* the body after handle_input(keys): one impulse per held key, in the order
\* a, d, w, s
HandleInputBody(b, keys) ==
    LET b1 == IF "a" \in keys
              THEN apply_impulse_at_world_point(b, <<RSub(R(0), HALF_IMPULSE), R(0)>>, b.position)
              ELSE b
        b2 == IF "d" \in keys
              THEN apply_impulse_at_world_point(b1, <<HALF_IMPULSE, R(0)>>, b1.position)
              ELSE b1
        b3 == IF "w" \in keys
              THEN apply_impulse_at_world_point(b2, <<R(0), HALF_IMPULSE>>, b2.position)
              ELSE b2
        b4 == IF "s" \in keys
              THEN apply_impulse_at_world_point(b3, <<R(0), R(-IMPULSE_STRENGTH)>>, b3.position)
              ELSE b3
    IN  b4

handle_input(keys) ==
    /\ body' = HandleInputBody(body, keys)
    /\ UNCHANGED <<mouse_body, drag_joint, prev_mouse_pos, space, joints, err>>

\* the anchor of the drag joint in the body's local frame
LocalAnchor(pos) == Rotated(VSub(pos, body.position), 4 - body.angle)

\* what start_drag does once the containment test has passed
StartDragBody(pos) ==
    LET joint == Len(joints) + 1
        added == SpaceAdd(space, {"mouse_body"}, {joint})
    IN  /\ mouse_body' = [mouse_body EXCEPT !.position = pos]
        /\ prev_mouse_pos' = pos
        /\ joints' = Append(joints, [PivotJoint(LocalAnchor(pos))
                                       EXCEPT !.max_force = DRAG_MAX_FORCE])
        /\ drag_joint' = joint
        /\ space' = added.space
        /\ err' = added.err
        /\ UNCHANGED body

\* start_drag that ignores a click exactly on the boundary
start_drag_boundary_excluded(pos) ==
    IF point_query_sign(pos) >= 0 THEN UNCHANGED pvars ELSE StartDragBody(pos)

\* start_drag without the containment test
start_drag_unguarded(pos) == StartDragBody(pos)

start_drag(pos) ==
    IF point_query_sign(pos) > 0 THEN UNCHANGED pvars ELSE StartDragBody(pos)

\* the velocity update_drag gives the control point
DragVelocity(pos, prev, dt) ==
    LET dt1 == IF RLe(dt, R(0)) THEN EPSILON_DT ELSE dt
        vel == VSub(pos, prev)
    IN  <<RDiv(vel[1], dt1), RDiv(vel[2], dt1)>>

\* update_drag that keeps differencing against the position of the click
update_drag_stale_prev(pos, dt) ==
    IF drag_joint = NoJoint
    THEN UNCHANGED pvars
    ELSE /\ mouse_body' = [position |-> pos,
                           velocity |-> DragVelocity(pos, prev_mouse_pos, dt)]
         /\ UNCHANGED <<prev_mouse_pos, body, drag_joint, space, joints, err>>

update_drag(pos, dt) ==
    IF drag_joint = NoJoint
    THEN UNCHANGED pvars
    ELSE /\ mouse_body' = [position |-> pos,
                           velocity |-> DragVelocity(pos, prev_mouse_pos, dt)]
         /\ prev_mouse_pos' = pos
         /\ UNCHANGED <<body, drag_joint, space, joints, err>>

\* end_drag that zeroes the control point before flinging
end_drag_reset_first ==
    IF drag_joint = NoJoint
    THEN UNCHANGED pvars
    ELSE LET removed == SpaceRemove(space, {drag_joint}, {"mouse_body"})
         IN  /\ body' = [body EXCEPT !.velocity = V(0, 0)]
             /\ space' = removed.space
             /\ err' = removed.err
             /\ drag_joint' = NoJoint
             /\ mouse_body' = [mouse_body EXCEPT !.velocity = V(0, 0)]
             /\ UNCHANGED <<prev_mouse_pos, joints>>

\* end_drag without the test for an active drag
end_drag_unguarded ==
    LET removed == SpaceRemove(space, {drag_joint}, {"mouse_body"})
    IN  /\ body' = [body EXCEPT !.velocity = mouse_body.velocity]
        /\ space' = removed.space
        /\ err' = removed.err
        /\ IF removed.err = "none"
           THEN /\ drag_joint' = NoJoint
                /\ mouse_body' = [mouse_body EXCEPT !.velocity = V(0, 0)]
           ELSE UNCHANGED <<drag_joint, mouse_body>>
        /\ UNCHANGED <<prev_mouse_pos, joints>>

\* end_drag that leaves the control point its velocity
end_drag_velocity_kept ==
    IF drag_joint = NoJoint
    THEN UNCHANGED pvars
    ELSE LET removed == SpaceRemove(space, {drag_joint}, {"mouse_body"})
         IN  /\ body' = [body EXCEPT !.velocity = mouse_body.velocity]
             /\ space' = removed.space
             /\ err' = removed.err
             /\ drag_joint' = IF removed.err = "none" THEN NoJoint ELSE drag_joint
             /\ UNCHANGED <<mouse_body, prev_mouse_pos, joints>>

\* end_drag that does not hand the control point's velocity to the body
end_drag_no_fling ==
    IF drag_joint = NoJoint
    THEN UNCHANGED pvars
    ELSE LET removed == SpaceRemove(space, {drag_joint}, {"mouse_body"})
         IN  /\ space' = removed.space
             /\ err' = removed.err
             /\ IF removed.err = "none"
                THEN /\ drag_joint' = NoJoint
                     /\ mouse_body' = [mouse_body EXCEPT !.velocity = V(0, 0)]
                ELSE UNCHANGED <<drag_joint, mouse_body>>
             /\ UNCHANGED <<body, prev_mouse_pos, joints>>

end_drag ==
    IF drag_joint = NoJoint
    THEN UNCHANGED pvars
    ELSE LET removed == SpaceRemove(space, {drag_joint}, {"mouse_body"})
         IN  /\ body' = [body EXCEPT !.velocity = mouse_body.velocity]
             /\ space' = removed.space
             /\ err' = removed.err
             /\ IF removed.err = "none"
                THEN /\ drag_joint' = NoJoint
                     /\ mouse_body' = [mouse_body EXCEPT !.velocity = V(0, 0)]
                ELSE UNCHANGED <<drag_joint, mouse_body>>
             /\ UNCHANGED <<prev_mouse_pos, joints>>

\* space.step(dt), dt > 0.  The dynamic player body is moved by the engine
\* (gravity, collisions, the drag joint): any outcome of the bounded sets.
\* A kinematic body in the space keeps its velocity and moves by velocity * dt.
space_step(dt, p, v, a) ==
    /\ body' = [position |-> p, velocity |-> v, angle |-> a]
    /\ mouse_body' =
           IF "mouse_body" \in space.bodies
           THEN [mouse_body EXCEPT !.position = VAdd(@, VScale(mouse_body.velocity, dt))]
           ELSE mouse_body
    /\ UNCHANGED <<drag_joint, prev_mouse_pos, space, joints, err>>

----------------------------------------------------------------------------
(* Spec: the Player's operations invoked in any order with any arguments,  *)
(* interleaved with physics steps, until an exception ends the program.    *)

NoCall == [op |-> "init", prev |-> "init", pos |-> V(0, 0), dt |-> R(0), keys |-> {}]

\* hist records what the callers did, independently of what the Player made
\* of it:
\*   sample  the pointer position of the latest pointer-down that hit the
\*           shape or of the latest update_drag of the drag it began
\*   est     (sample - previous sample) / dt of the latest update_drag of the
\*           current drag, zero when the drag has had none
\*   miss    "down" after a pointer-down in Idle that missed the shape and
\*           the pointer-moves following it, "up" after the pointer-up that
\*           ends such a gesture, "none" otherwise
\*   shadow  the body velocity as the other operations alone make it since
\*           that pointer-down
\*   est_frame  the frame of main() in which est was taken, 0 when the
\*           drag has had no update_drag
NoHist == [sample |-> None, est |-> V(0, 0), est_frame |-> 0,
           miss |-> "none", shadow |-> V(0, 0)]

HistStartDrag(pos) ==
    IF point_query_sign(pos) <= 0
    THEN [hist EXCEPT !.sample = pos, !.est = V(0, 0), !.est_frame = 0, !.miss = "none"]
    ELSE IF drag_joint = NoJoint
         THEN [hist EXCEPT !.miss = "down", !.shadow = body.velocity]
         ELSE [hist EXCEPT !.miss = "none"]

HistUpdateDrag(pos, delta) ==
    LET h == [hist EXCEPT !.miss = IF @ = "down" THEN "down" ELSE "none"]
    IN  IF drag_joint = NoJoint
        THEN h
        ELSE [h EXCEPT !.sample = pos,
                       !.est = VScale(VSub(pos, hist.sample),
                                      RDiv(R(1), IF RLt(R(0), delta)
                                                 THEN delta ELSE EPSILON_DT)),
                       !.est_frame = frameno]

HistEndDrag == [hist EXCEPT !.miss = IF @ = "down" THEN "up" ELSE "none"]

HistHandleInput(keys) ==
    [hist EXCEPT !.shadow =
        HandleInputBody([body EXCEPT !.velocity = hist.shadow], keys).velocity]

HistStep(v) == [hist EXCEPT !.shadow = v]

\* main() not started, no transform under evaluation
NoFile == [ext |-> "json", yaml_installed |-> TRUE, parses |-> TRUE, data |-> <<>>]
NoXf == [stage |-> "none", dir |-> "none", point |-> <<>>, pixel |-> <<0, 0>>,
         camera |-> <<>>, size |-> <<0, 0>>, screen |-> <<0, 0>>, world |-> <<>>]

MainIdle ==
    /\ level_file = NoFile
    /\ segments = <<>>
    /\ pc = "idle"
    /\ frame_dt = R(0)
    /\ events = <<>>
    /\ camera_pos = V(0, 0)
    /\ screen = <<SCREEN_WIDTH, SCREEN_HEIGHT>>
    /\ running = TRUE
    /\ frameno = 0
    /\ done = <<>>
    /\ rect_center = <<0, 0>>

Init ==
    /\ PlayerInit
    /\ call = NoCall
    /\ hist = NoHist
    /\ nops = 0
    /\ MainIdle
    /\ xf = NoXf

Running == err = "none" /\ nops < MaxOps

CallStartDrag ==
    \E pos \in Points :
        /\ Running
        /\ start_drag(pos)
        /\ call' = [NoCall EXCEPT !.op = "start_drag", !.prev = call.op, !.pos = pos]
        /\ hist' = HistStartDrag(pos)
        /\ nops' = nops + 1
        /\ UNCHANGED <<mvars, xf>>

CallUpdateDrag ==
    \E pos \in Points, delta \in Dts :
        /\ Running
        /\ update_drag(pos, delta)
        /\ call' = [NoCall EXCEPT !.op = "update_drag", !.prev = call.op,
                                  !.pos = pos, !.dt = delta]
        /\ hist' = HistUpdateDrag(pos, delta)
        /\ nops' = nops + 1
        /\ UNCHANGED <<mvars, xf>>

CallEndDrag ==
    /\ Running
    /\ end_drag
    /\ call' = [NoCall EXCEPT !.op = "end_drag", !.prev = call.op]
    /\ hist' = HistEndDrag
    /\ nops' = nops + 1
    /\ UNCHANGED <<mvars, xf>>

CallHandleInput ==
    \E keys \in KeySets :
        /\ Running
        /\ handle_input(keys)
        /\ call' = [NoCall EXCEPT !.op = "handle_input", !.prev = call.op, !.keys = keys]
        /\ hist' = HistHandleInput(keys)
        /\ nops' = nops + 1
        /\ UNCHANGED <<mvars, xf>>

CallStep ==
    \E p \in StepPositions, v \in StepVelocities, a \in StepAngles :
        /\ Running
        /\ space_step(StepDt, p, v, a)
        /\ call' = [NoCall EXCEPT !.op = "step", !.prev = call.op, !.dt = StepDt]
        /\ hist' = HistStep(v)
        /\ nops' = nops + 1
        /\ UNCHANGED <<mvars, xf>>

Next ==
    \/ CallStartDrag
    \/ CallUpdateDrag
    \/ CallEndDrag
    \/ CallHandleInput
    \/ CallStep

Spec == Init /\ [][Next]_vars

----------------------------------------------------------------------------
(* Properties of the drag controller and of handle_input, under Spec       *)

Dragging == drag_joint # NoJoint

\* C1 (as claimed): the space holds at most one drag constraint, and a
\* constraint it holds is the one recorded in Player.drag_joint.
C1_AtMostOneDrag ==
    /\ Cardinality(space.constraints) <= 1
    /\ \A c \in space.constraints : c = drag_joint

\* C2: start_drag(pos) called in Idle starts a drag exactly when the signed
\* distance from pos to the shape is not positive; then the control point is
\* at pos, the previous sample is pos and the constraint is in the space;
\* otherwise nothing of the program's state changes.
C2_StartDragIffInside ==
    [][(call'.op = "start_drag" /\ ~Dragging) =>
          IF point_query_sign(call'.pos) <= 0
          THEN /\ Dragging'
               /\ mouse_body'.position = call'.pos
               /\ prev_mouse_pos' = call'.pos
               /\ space'.constraints = {drag_joint'}
               /\ "mouse_body" \in space'.bodies
               /\ err' = "none"
               /\ body' = body
          ELSE UNCHANGED pvars]_vars

\* a click exactly on the boundary of the shape, in Idle, has started a drag
C2_Witness ==
    /\ call.op = "start_drag" /\ nops = 1
    /\ point_query_sign(call.pos) = 0
    /\ Dragging /\ drag_joint \in space.constraints

\* C3: end_drag() while Dragging gives the body the control point's velocity
\* as last set by update_drag, takes the constraint and the control point out
\* of the space, zeroes the control point's velocity and leaves the
\* controller Idle, ready for a fresh drag.
C3_EndDragFlings ==
    [][(call'.op = "end_drag" /\ Dragging) =>
          /\ body'.velocity = hist.est
          /\ body'.position = body.position /\ body'.angle = body.angle
          /\ space'.constraints = {} /\ "mouse_body" \notin space'.bodies
          /\ mouse_body'.velocity = V(0, 0)
          /\ ~Dragging'
          /\ err' = "none"
          /\ SpaceAdd(space', {"mouse_body"}, {Len(joints') + 1}).err = "none"]_vars

\* a drag with a moving pointer has been ended and has flung the body
C3_Witness ==
    /\ call.op = "end_drag" /\ call.prev = "update_drag"
    /\ ~Dragging /\ joints # <<>>
    /\ body.velocity = hist.est /\ hist.est # V(0, 0)

\* C4: with no drag active update_drag and end_drag change nothing and raise
\* nothing; so a second end_drag in succession changes nothing.
C4_IdleCallsAreNoOps ==
    [][/\ (call'.op \in {"update_drag", "end_drag"} /\ ~Dragging) => UNCHANGED pvars
       /\ (call'.op = "end_drag" /\ call.op = "end_drag") => UNCHANGED pvars]_vars

\* end_drag has been called twice in succession after a drag
C4_Witness ==
    /\ call.op = "end_drag" /\ call.prev = "end_drag"
    /\ joints # <<>> /\ ~Dragging /\ err = "none"

\* C5: while Dragging, update_drag(P1, dt) with previous sample P0 sets the
\* control point's velocity to (P1 - P0) / dt when dt > 0 and to
\* (P1 - P0) / 1e-6 otherwise, its position to P1 and the previous sample to
\* P1, where P0 is the pointer position of the immediately preceding call.
C5_UpdateDragVelocity ==
    [][(call'.op = "update_drag" /\ Dragging) =>
          LET P0 == hist.sample
              P1 == call'.pos
              d  == VSub(P1, P0)
              dt == call'.dt
          IN  /\ mouse_body'.velocity =
                    IF dt[1] > 0
                    THEN <<RDiv(d[1], dt), RDiv(d[2], dt)>>
                    ELSE <<RMul(d[1], R(1000000)), RMul(d[2], R(1000000))>>
              /\ mouse_body'.position = P1
              /\ prev_mouse_pos' = P1
              /\ err' = "none"]_vars

\* two update_drag calls in succession in one drag, the second with dt = 0
\* and a pointer that moved since the first
C5_Witness ==
    /\ call.op = "update_drag" /\ call.prev = "update_drag"
    /\ call.dt = R(0)
    /\ Dragging /\ mouse_body.velocity # V(0, 0)

\* C6: from Idle, a pointer-down that misses the shape, then pointer-moves,
\* then a pointer-up: the body's velocity is what the other operations alone
\* make it.
C6_MissedGestureKeepsVelocity ==
    hist.miss \in {"down", "up"} => /\ body.velocity = hist.shadow
                                   /\ ~Dragging

\* such a gesture has been completed on a moving body
C6_Witness ==
    /\ hist.miss = "up" /\ call.op = "end_drag" /\ call.prev = "update_drag"
    /\ body.velocity # V(0, 0)

\* the impulse handle_input(keys) applies as claimed: up and down both of the
\* full baseline magnitude
ClaimedImpulse(keys) ==
    <<RAdd(IF "a" \in keys THEN RSub(R(0), HALF_IMPULSE) ELSE R(0),
           IF "d" \in keys THEN HALF_IMPULSE ELSE R(0)),
      RAdd(IF "w" \in keys THEN R(IMPULSE_STRENGTH) ELSE R(0),
           IF "s" \in keys THEN R(-IMPULSE_STRENGTH) ELSE R(0))>>

AmendedImpulse(keys) ==
    <<RAdd(IF "a" \in keys THEN Rat(-IMPULSE_STRENGTH, 2) ELSE R(0),
           IF "d" \in keys THEN Rat(IMPULSE_STRENGTH, 2) ELSE R(0)),
      RAdd(IF "w" \in keys THEN Rat(IMPULSE_STRENGTH, 2) ELSE R(0),
           IF "s" \in keys THEN R(-IMPULSE_STRENGTH) ELSE R(0))>>

C12_DragStateConsistent ==
    /\ Dragging => prev_mouse_pos # None
    /\ ~Dragging => mouse_body.velocity = V(0, 0)

\* a drag whose control point was moving has been ended: the body was flung
\* and the control point is at rest again
C12_Witness ==
    /\ call.op = "end_drag" /\ call.prev = "update_drag"
    /\ ~Dragging
    /\ body.velocity # V(0, 0)
    /\ mouse_body.velocity = V(0, 0)
    /\ prev_mouse_pos # None

----------------------------------------------------------------------------
(* binary64 arithmetic                                                     *)
(*                                                                         *)
(* The transforms add and subtract a camera coordinate, and whether a      *)
(* pixel comes back as itself is decided by the round-off of those sums,   *)
(* so here a Python float is a binary64 number and every sum is rounded    *)
(* to 53 significant bits, ties to even.  A double is <<i, h, l>>, its     *)
(* value i + h / 2^24 + l / 2^48 with i its floor and 0 <= h, l < 2^24.    *)
(* Every double of magnitude from 16 up to 2^28, and every multiple of     *)
(* 2^-48 below 16, is of this form, and the form is closed under the       *)
(* rounded sum and difference.                                             *)

Limb == 2^24

\* carries of the low and the middle limb
DNorm(i, h, l) ==
    LET h2 == h + (l \div Limb)
    IN  <<i + (h2 \div Limb), h2 % Limb, l % Limb>>

DInt(n) == <<n, 0, 0>>
\* n / 2 for an int n (true division)
DHalf(n) == <<n \div 2, (n % 2) * (Limb \div 2), 0>>
DNeg(a) == DNorm(-a[1], -a[2], -a[3])
DAbs(a) == IF a[1] < 0 THEN DNeg(a) ELSE a
\* the sum and the difference before rounding
DAddExact(a, b) == DNorm(a[1] + b[1], a[2] + b[2], a[3] + b[3])
DSubExact(a, b) == DAddExact(a, DNeg(b))
DLe(a, b) ==
    \/ a[1] < b[1]
    \/ a[1] = b[1] /\ a[2] < b[2]
    \/ a[1] = b[1] /\ a[2] = b[2] /\ a[3] <= b[3]

RECURSIVE BitLen(_)
BitLen(n) == IF n = 0 THEN 0 ELSE 1 + BitLen(n \div 2)

\* Round a value >= 0 to 53 significant bits, ties to even: an integer part
\* of e > 5 bits leaves 53 - e bits of the 48 fraction bits, so the lowest
\* e - 5 bits of the low limb are rounded away.
Round53Magnitude(a) ==
    LET k == BitLen(a[1]) - 5
    IN  IF k <= 0 THEN a
        ELSE LET u  == 2^k
                 q  == a[3] \div u
                 r  == a[3] % u
                 up == r > u \div 2 \/ (r = u \div 2 /\ q % 2 = 1)
             IN  DNorm(a[1], a[2], (q + (IF up THEN 1 ELSE 0)) * u)

Round53(a) == IF a[1] < 0 THEN DNeg(Round53Magnitude(DNeg(a))) ELSE Round53Magnitude(a)

\* float + float, float - float
FAdd(a, b) == Round53(DAddExact(a, b))
FSub(a, b) == Round53(DSubExact(a, b))

\* The rest of the model holds its numbers as rationals of few bits, which
\* are doubles as they stand: the same number in the other form.
Double(r) ==
    CASE Limb % r[2] = 0 -> <<r[1] \div r[2], (r[1] % r[2]) * (Limb \div r[2]), 0>>
Rational(a) ==
    CASE a[3] = 0 -> RAdd(R(a[1]), Rat(a[2], Limb))
DoubleVec(p) == <<Double(p[1]), Double(p[2])>>
RationalVec(p) == <<Rational(p[1]), Rational(p[2])>>

----------------------------------------------------------------------------
(* Coordinate transforms                                                   *)

\* int(x): truncation toward zero
Trunc(a) == IF a[1] >= 0 \/ (a[2] = 0 /\ a[3] = 0) THEN a[1] ELSE a[1] + 1

\* world_to_screen with the vertical axis left as it is in the world
world_to_screen_y_not_inverted(p, camera, size) ==
    LET x == FAdd(FSub(p[1], camera[1]), DHalf(size[1]))
        y == FAdd(DHalf(size[2]), FSub(p[2], camera[2]))
    IN  <<Trunc(x), Trunc(y)>>

world_to_screen(p, camera, size) ==
    LET x == FAdd(FSub(p[1], camera[1]), DHalf(size[1]))
        y == FSub(DHalf(size[2]), FSub(p[2], camera[2]))
    IN  <<Trunc(x), Trunc(y)>>

\* screen_to_world with the vertical axis left as it is on the screen
screen_to_world_y_not_inverted(p, camera, size) ==
    LET x == FAdd(FSub(DInt(p[1]), DHalf(size[1])), camera[1])
        y == FAdd(camera[2], FSub(DInt(p[2]), DHalf(size[2])))
    IN  <<x, y>>

screen_to_world(p, camera, size) ==
    LET x == FAdd(FSub(DInt(p[1]), DHalf(size[1])), camera[1])
        y == FSub(camera[2], FSub(DInt(p[2]), DHalf(size[2])))
    IN  <<x, y>>

----------------------------------------------------------------------------
(* SpecXform: the transforms applied to inputs of bounded sets: a world    *)
(* point taken to the screen and back, a pixel taken to the world and      *)
(* back, and the camera's own position taken to the screen                 *)

\* doubles: 100.0, 100.1, -300.75, -305.5, -300.05, 501.0
XfXs == {<<100, 0, 0>>, <<100, 1677721, 10066328>>, <<-301, 4194304, 0>>,
         <<-306, 8388608, 0>>, <<-301, 15938355, 3355440>>, <<501, 0, 0>>}
\* doubles: 1100.0, 900.0, 1402.5, 1400.75, 1400.95, 799.0
XfYs == {<<1100, 0, 0>>, <<900, 0, 0>>, <<1402, 8388608, 0>>,
         <<1400, 12582912, 0>>, <<1400, 15938355, 3355456>>, <<799, 0, 0>>}
XfPixels == {<<0, 0>>, <<400, 300>>, <<-3, -7>>, <<130, 100>>, <<799, 599>>}
\* doubles: (100.0, 1100.0), (100.1, 900.1), (100.6, 900.4)
XfCameras == {<<<<100, 0, 0>>, <<1100, 0, 0>>>>,
              <<<<100, 1677721, 10066328>>, <<900, 1677721, 10066336>>>>,
              <<<<100, 10066329, 10066328>>, <<900, 6710886, 6710880>>>>}
XfSizes == {<<SCREEN_WIDTH, SCREEN_HEIGHT>>, <<SCREEN_WIDTH + 1, SCREEN_HEIGHT + 1>>}

XfOrigin == <<DInt(0), DInt(0)>>

XfInputs ==
    {[stage |-> "input", dir |-> "world", point |-> <<x, y>>, pixel |-> <<0, 0>>,
      camera |-> c, size |-> sz, screen |-> <<0, 0>>, world |-> XfOrigin] :
        x \in XfXs, y \in XfYs, c \in XfCameras, sz \in XfSizes}
    \cup
    {[stage |-> "input", dir |-> "screen", point |-> XfOrigin, pixel |-> px,
      camera |-> c, size |-> sz, screen |-> <<0, 0>>, world |-> XfOrigin] :
        px \in XfPixels, c \in XfCameras, sz \in XfSizes}
    \cup
    {[stage |-> "input", dir |-> "focus", point |-> c, pixel |-> <<0, 0>>,
      camera |-> c, size |-> sz, screen |-> <<0, 0>>, world |-> XfOrigin] :
        c \in XfCameras, sz \in XfSizes}

XfInit ==
    /\ PlayerInit
    /\ call = NoCall
    /\ hist = NoHist
    /\ nops = 0
    /\ MainIdle
    /\ xf \in XfInputs

XfToScreen ==
    /\ \/ xf.dir \in {"world", "focus"} /\ xf.stage = "input"
       \/ xf.dir = "screen" /\ xf.stage = "half"
    /\ xf' = [xf EXCEPT
                !.stage = IF @ = "input" /\ xf.dir = "world" THEN "half" ELSE "full",
                !.screen = world_to_screen(IF xf.dir = "screen" THEN xf.world ELSE xf.point,
                                           xf.camera, xf.size)]
    /\ UNCHANGED <<pvars, call, hist, nops, mvars>>

XfToWorld ==
    /\ \/ xf.dir = "screen" /\ xf.stage = "input"
       \/ xf.dir = "world" /\ xf.stage = "half"
    /\ xf' = [xf EXCEPT
                !.stage = IF @ = "input" THEN "half" ELSE "full",
                !.world = screen_to_world(IF xf.dir = "screen" THEN xf.pixel ELSE xf.screen,
                                          xf.camera, xf.size)]
    /\ UNCHANGED <<pvars, call, hist, nops, mvars>>

XfNext ==
    \/ XfToScreen
    \/ XfToWorld

SpecXform == XfInit /\ [][XfNext]_vars

\* C7: a world point taken to the screen and back differs from itself by at
\* most 1 unit in each coordinate, also where the truncated pixel coordinate
\* is negative and where the viewport's width or height is odd.
C7_RoundTripWithinOne ==
    (xf.dir = "world" /\ xf.stage = "full") =>
        /\ DLe(DAbs(DSubExact(xf.world[1], xf.point[1])), DInt(1))
        /\ DLe(DAbs(DSubExact(xf.world[2], xf.point[2])), DInt(1))

\* a round trip through a pixel left of and above an odd-sized viewport that
\* lost a fraction in both coordinates
C7_Witness ==
    /\ xf.dir = "world" /\ xf.stage = "full"
    /\ xf.screen[1] < 0 /\ xf.screen[2] < 0
    /\ xf.size[1] % 2 = 1 /\ xf.size[2] % 2 = 1
    /\ xf.world[1] # xf.point[1] /\ xf.world[2] # xf.point[2]

SumsExactly(c) == c[3] = 0 /\ c[2] % (Limb \div 2) = 0

----------------------------------------------------------------------------
(* load_level                                                              *)

\* pymunk.Segment(space.static_body, a, b, 0) with its friction set
Segment(a, b, friction) ==
    [kind |-> "Segment", body |-> "static_body", a |-> a, b |-> b,
     radius |-> 0, friction |-> friction]

\* the for loop of load_level over the records not yet read: the segments
\* built, or the KeyError of the first record that lacks "a" or "b"
RECURSIVE BuildSegments(_, _)
BuildSegments(data, built) ==
    IF data = <<>>
    THEN [err |-> "none", segments |-> built]
    ELSE LET seg == Head(data)
         IN  IF "a" \notin DOMAIN seg \/ "b" \notin DOMAIN seg
             THEN [err |-> "KeyError", segments |-> built]
             ELSE BuildSegments(
                      Tail(data),
                      Append(built,
                             Segment(seg.a, seg.b,
                                     IF "friction" \in DOMAIN seg
                                     THEN seg.friction ELSE R(1))))

\* load_level that adds each segment to the space as soon as it is built
LoadLevel_add_as_built(file, sp) ==
    LET r == BuildSegments(file.data, <<>>)
    IN  IF file.ext = "yaml" /\ ~file.yaml_installed
        THEN [err |-> "RuntimeError", segments |-> <<>>, space |-> sp]
        ELSE IF ~file.parses
        THEN [err |-> "ParseError", segments |-> <<>>, space |-> sp]
        ELSE [err |-> r.err,
              segments |-> IF r.err = "none" THEN r.segments ELSE <<>>,
              space |-> [sp EXCEPT !.shapes = @ \o r.segments]]

\* load_level(path, space): the exception raised or "none", the list
\* returned, and the space afterwards
LoadLevel(file, sp) ==
    IF file.ext = "yaml" /\ ~file.yaml_installed
    THEN [err |-> "RuntimeError", segments |-> <<>>, space |-> sp]
    ELSE IF ~file.parses
    THEN [err |-> "ParseError", segments |-> <<>>, space |-> sp]
    ELSE LET r == BuildSegments(file.data, <<>>)
         IN  IF r.err # "none"
             THEN [err |-> r.err, segments |-> <<>>, space |-> sp]
             ELSE [err |-> "none", segments |-> r.segments,
                   space |-> [sp EXCEPT !.shapes = @ \o r.segments]]

\* main() up to the frame loop: the player exists, the level is loaded, the
\* camera is centred on the player
MainLoad ==
    /\ pc = "load"
    /\ err = "none"
    /\ LET r == LoadLevel(level_file, space)
       IN  /\ err' = r.err
           /\ space' = r.space
           /\ segments' = r.segments
           /\ pc' = IF r.err = "none" THEN "tick" ELSE "load"
           /\ camera_pos' = IF r.err = "none" THEN body.position ELSE camera_pos
    /\ call' = [NoCall EXCEPT !.op = "load_level", !.prev = call.op]
    /\ UNCHANGED <<body, mouse_body, drag_joint, prev_mouse_pos, joints, hist, nops,
                   level_file, frame_dt, events, screen, running, frameno, done,
                   rect_center, xf>>

----------------------------------------------------------------------------
(* SpecLevel: main() started on a level file of a bounded set              *)

MaxRecords == 2

\* records of a level file; the third lacks "a", the fourth lacks "b"
LevelRecords ==
    {[a |-> V(0, 0), b |-> V(100, 0), friction |-> Rat(1, 2)],
     [a |-> V(0, 40), b |-> V(2000, 40)],
     [b |-> V(5, 5), friction |-> Rat(1, 4)],
     [a |-> V(7, 7)],
     [a |-> V(0, 40), b |-> V(0, 1200), friction |-> R(0)]}

RECURSIVE SeqsUpTo(_, _)
SeqsUpTo(S, n) ==
    IF n = 0 THEN {<<>>}
    ELSE LET shorter == SeqsUpTo(S, n - 1)
         IN  shorter \cup {Append(q, x) : q \in shorter, x \in S}

LevelFiles ==
    {[ext |-> e, yaml_installed |-> y, parses |-> ok, data |-> d] :
        e \in {"json", "yaml"}, y \in BOOLEAN, ok \in BOOLEAN,
        d \in SeqsUpTo(LevelRecords, MaxRecords)}

MainStart(files) ==
    /\ PlayerInit
    /\ call = NoCall
    /\ hist = NoHist
    /\ nops = 0
    /\ xf = NoXf
    /\ level_file \in files
    /\ segments = <<>>
    /\ pc = "load"
    /\ frame_dt = R(0)
    /\ events = <<>>
    /\ camera_pos = V(0, 0)
    /\ screen = <<SCREEN_WIDTH, SCREEN_HEIGHT>>
    /\ running = TRUE
    /\ frameno = 0
    /\ done = <<>>
    /\ rect_center = <<0, 0>>

LevelInit == MainStart(LevelFiles)

LevelNext == MainLoad

SpecLevel == LevelInit /\ [][LevelNext]_vars

Complete(seg) == "a" \in DOMAIN seg /\ "b" \in DOMAIN seg

Loadable(file) == (file.ext = "yaml" => file.yaml_installed) /\ file.parses

\* C9: a load that succeeds yields exactly one static segment per record, in
\* file order, with the record's endpoints and its friction or 1.0; a load of
\* a file with a record lacking a or b raises, and no segment of the file is
\* in the space.
C9_LoadLevelAllOrNothing ==
    call.op = "load_level" =>
        LET data == level_file.data
        IN  /\ (Loadable(level_file) /\ \A i \in DOMAIN data : Complete(data[i])) =>
                  /\ err = "none"
                  /\ Len(segments) = Len(data)
                  /\ \A i \in DOMAIN data :
                        /\ segments[i].a = data[i].a
                        /\ segments[i].b = data[i].b
                        /\ segments[i].body = "static_body"
                        /\ segments[i].friction =
                              IF "friction" \in DOMAIN data[i]
                              THEN data[i].friction ELSE R(1)
                  /\ space.shapes = <<PlayerShape>> \o segments
            /\ (\E i \in DOMAIN data : ~Complete(data[i])) =>
                  /\ err # "none"
                  /\ space.shapes = <<PlayerShape>>
                  /\ segments = <<>>

\* a file whose second record lacks an endpoint has been refused after its
\* first record was read
C9_Witness ==
    /\ call.op = "load_level"
    /\ err = "KeyError"
    /\ Len(level_file.data) = 2
    /\ Complete(level_file.data[1]) /\ ~Complete(level_file.data[2])
    /\ space.shapes = <<PlayerShape>>

----------------------------------------------------------------------------
(* The frame loop of main()                                                *)

CAMERA_SMOOTHING == 5

\* the steps of one frame, in the order of the loop body
FrameSteps == <<"dt", "events", "update_drag", "handle_input", "camera", "step",
                "render">>

\* the loop body with update_drag moved in front of the event handling
After_update_before_events(stepname) ==
    CASE stepname = "dt"           -> "update_drag"
      [] stepname = "update_drag"  -> "poll"
      [] stepname = "events"       -> "handle_input"
      [] stepname = "handle_input" -> "camera"
      [] stepname = "camera"       -> "step"
      [] stepname = "step"         -> "render"
      [] stepname = "render"       -> "tick"

\* the statement main() runs once a step of the frame is complete
After(stepname) ==
    CASE stepname = "dt"           -> "poll"
      [] stepname = "events"       -> "update_drag"
      [] stepname = "update_drag"  -> "handle_input"
      [] stepname = "handle_input" -> "camera"
      [] stepname = "camera"       -> "step"
      [] stepname = "step"         -> "render"
      [] stepname = "render"       -> "tick"

Completed(stepname) ==
    /\ pc' = After(stepname)
    /\ done' = Append(done, stepname)

\* dt = clock.tick(60) / 1000.0, replaced by 1e-6 when <= 0
FrameDt(ms) ==
    LET d == Rat(ms, 1000)
    IN  IF RLe(d, R(0)) THEN EPSILON_DT ELSE d

\* while running: dt = ...
MainTick(ms) ==
    /\ pc = "tick" /\ err = "none" /\ running
    /\ frame_dt' = FrameDt(ms)
    /\ frameno' = frameno + 1
    /\ pc' = After("dt")
    /\ done' = <<"dt">>
    /\ call' = [NoCall EXCEPT !.op = "tick", !.prev = call.op]
    /\ UNCHANGED <<pvars, hist, nops, level_file, segments, events, camera_pos, screen,
                   running, rect_center, xf>>

\* pygame.event.get()
MainPoll(batch) ==
    /\ pc = "poll" /\ err = "none"
    /\ events' = batch
    /\ IF batch = <<>>
       THEN Completed("events")
       ELSE pc' = "events" /\ done' = done
    /\ call' = [NoCall EXCEPT !.op = "poll", !.prev = call.op]
    /\ UNCHANGED <<pvars, hist, nops, level_file, segments, frame_dt, camera_pos, screen,
                   running, frameno, rect_center, xf>>

\* the end of one iteration of the for loop over the events
EventHandled ==
    /\ events' = Tail(events)
    /\ IF Tail(events) = <<>> /\ err' = "none"
       THEN Completed("events")
       ELSE pc' = pc /\ done' = done

HandlingEvent == pc = "events" /\ err = "none" /\ events # <<>>

MainEventQuit ==
    /\ HandlingEvent
    /\ Head(events).type = "QUIT"
    /\ running' = FALSE
    /\ call' = [NoCall EXCEPT !.op = "quit", !.prev = call.op]
    /\ UNCHANGED <<pvars, hist, nops, level_file, segments, frame_dt, camera_pos, screen,
                   frameno, rect_center, xf>>
    /\ EventHandled

MainEventDown ==
    /\ HandlingEvent
    /\ Head(events).type = "MOUSEBUTTONDOWN" /\ Head(events).button = 1
    /\ LET pos == RationalVec(screen_to_world(Head(events).pos, DoubleVec(camera_pos),
                                               screen))
       IN  /\ start_drag(pos)
           /\ hist' = HistStartDrag(pos)
           /\ call' = [NoCall EXCEPT !.op = "start_drag", !.prev = call.op, !.pos = pos]
    /\ UNCHANGED <<nops, level_file, segments, frame_dt, camera_pos, screen, running,
                   frameno, rect_center, xf>>
    /\ EventHandled

MainEventUp ==
    /\ HandlingEvent
    /\ Head(events).type = "MOUSEBUTTONUP" /\ Head(events).button = 1
    /\ end_drag
    /\ hist' = HistEndDrag
    /\ call' = [NoCall EXCEPT !.op = "end_drag", !.prev = call.op]
    /\ UNCHANGED <<nops, level_file, segments, frame_dt, camera_pos, screen, running,
                   frameno, rect_center, xf>>
    /\ EventHandled

MainEventResize ==
    /\ HandlingEvent
    /\ Head(events).type = "VIDEORESIZE"
    /\ screen' = Head(events).size
    /\ call' = [NoCall EXCEPT !.op = "resize", !.prev = call.op]
    /\ UNCHANGED <<pvars, hist, nops, level_file, segments, frame_dt, camera_pos,
                   running, frameno, rect_center, xf>>
    /\ EventHandled

\* an event no branch of the loop handles: another mouse button
MainEventIgnored ==
    /\ HandlingEvent
    /\ Head(events).type \in {"MOUSEBUTTONDOWN", "MOUSEBUTTONUP"}
    /\ Head(events).button # 1
    /\ call' = [NoCall EXCEPT !.op = "ignored", !.prev = call.op]
    /\ UNCHANGED <<pvars, hist, nops, level_file, segments, frame_dt, camera_pos, screen,
                   running, frameno, rect_center, xf>>
    /\ EventHandled

\* player.update_drag(screen_to_world(pygame.mouse.get_pos(), ...), dt)
MainUpdateDrag(mouse) ==
    /\ pc = "update_drag" /\ err = "none"
    /\ LET pos == RationalVec(screen_to_world(mouse, DoubleVec(camera_pos), screen))
       IN  /\ update_drag(pos, frame_dt)
           /\ hist' = HistUpdateDrag(pos, frame_dt)
           /\ call' = [NoCall EXCEPT !.op = "update_drag", !.prev = call.op,
                                     !.pos = pos, !.dt = frame_dt]
    /\ Completed("update_drag")
    /\ UNCHANGED <<nops, level_file, segments, frame_dt, events, camera_pos, screen,
                   running, frameno, rect_center, xf>>

\* player.handle_input(pygame.key.get_pressed())
MainHandleInput(keys) ==
    /\ pc = "handle_input" /\ err = "none"
    /\ handle_input(keys)
    /\ hist' = HistHandleInput(keys)
    /\ call' = [NoCall EXCEPT !.op = "handle_input", !.prev = call.op, !.keys = keys]
    /\ Completed("handle_input")
    /\ UNCHANGED <<nops, level_file, segments, frame_dt, events, camera_pos, screen,
                   running, frameno, rect_center, xf>>

\* camera_pos += (player.body.position - camera_pos) * CAMERA_SMOOTHING * dt
MainCamera ==
    /\ pc = "camera" /\ err = "none"
    /\ camera_pos' = VAdd(camera_pos,
                          VScale(VScale(VSub(body.position, camera_pos),
                                        R(CAMERA_SMOOTHING)),
                                 frame_dt))
    /\ call' = [NoCall EXCEPT !.op = "camera", !.prev = call.op]
    /\ Completed("camera")
    /\ UNCHANGED <<pvars, hist, nops, level_file, segments, frame_dt, events, screen,
                   running, frameno, rect_center, xf>>

\* space.step(dt)
MainStep(p, v, a) ==
    /\ pc = "step" /\ err = "none"
    /\ space_step(frame_dt, p, v, a)
    /\ hist' = HistStep(v)
    /\ call' = [NoCall EXCEPT !.op = "step", !.prev = call.op, !.dt = frame_dt]
    /\ Completed("step")
    /\ UNCHANGED <<nops, level_file, segments, frame_dt, events, camera_pos, screen,
                   running, frameno, rect_center, xf>>

\* drawing: the sprite is centred on the player's position on the screen
MainRender ==
    /\ pc = "render" /\ err = "none"
    /\ rect_center' = world_to_screen(DoubleVec(body.position), DoubleVec(camera_pos),
                                    screen)
    /\ call' = [NoCall EXCEPT !.op = "render", !.prev = call.op]
    /\ Completed("render")
    /\ UNCHANGED <<pvars, hist, nops, level_file, segments, frame_dt, events, camera_pos,
                   screen, running, frameno, xf>>

\* the loop ends: pygame.quit()
MainQuit ==
    /\ pc = "tick" /\ err = "none" /\ ~running
    /\ pc' = "done"
    /\ call' = [NoCall EXCEPT !.op = "pygame.quit", !.prev = call.op]
    /\ UNCHANGED <<pvars, hist, nops, level_file, segments, frame_dt, events, camera_pos,
                   screen, running, frameno, done, rect_center, xf>>

----------------------------------------------------------------------------
(* SpecMain: main() on a loadable level, with bounded inputs per frame     *)

MaxFrames == 2
MaxBatch == 2

\* clock.tick(60) in milliseconds.  The frame limiter keeps later frames
\* from taking no time; the very first frame may have dt == 0.
FirstTicks == {0, 100, 200}
LaterTicks == {100, 200}

\* pointer positions on the screen: the viewport centre, 25 and 40 pixels
\* to the right of it
MousePixels == {<<400, 300>>, <<425, 300>>, <<440, 300>>}

MainEvents ==
    {[type |-> "QUIT", button |-> 0, pos |-> <<0, 0>>, size |-> <<0, 0>>],
     [type |-> "MOUSEBUTTONDOWN", button |-> 1, pos |-> <<400, 300>>, size |-> <<0, 0>>],
     [type |-> "MOUSEBUTTONDOWN", button |-> 1, pos |-> <<440, 300>>, size |-> <<0, 0>>],
     [type |-> "MOUSEBUTTONDOWN", button |-> 3, pos |-> <<400, 300>>, size |-> <<0, 0>>],
     [type |-> "MOUSEBUTTONUP", button |-> 1, pos |-> <<400, 300>>, size |-> <<0, 0>>],
     [type |-> "VIDEORESIZE", button |-> 0, pos |-> <<0, 0>>,
      size |-> <<SCREEN_WIDTH + 1, SCREEN_HEIGHT + 1>>]}

MainKeySets == {{}, {"d", "s"}}

\* outcomes of a physics step for the player body: position, velocity, angle
MainStepOutcomes ==
    {<<V(100, 1100), V(0, 0), 0>>, <<V(110, 1100), V(0, -15), 1>>}

MainLevelFiles ==
    {[ext |-> "json", yaml_installed |-> FALSE, parses |-> TRUE,
      data |-> <<[a |-> V(0, 40), b |-> V(2000, 40)]>>],
     [ext |-> "json", yaml_installed |-> FALSE, parses |-> TRUE,
      data |-> <<[a |-> V(7, 7)]>>]}

MainInit == MainStart(MainLevelFiles)

MainFrame ==
    \E ms \in (IF frameno = 0 THEN FirstTicks ELSE LaterTicks) :
        frameno < MaxFrames /\ MainTick(ms)

MainEvents_get == \E batch \in SeqsUpTo(MainEvents, MaxBatch) : MainPoll(batch)

MainFrameUpdateDrag == \E mouse \in MousePixels : MainUpdateDrag(mouse)

MainFrameHandleInput == \E keys \in MainKeySets : MainHandleInput(keys)

MainFrameStep == \E o \in MainStepOutcomes : MainStep(o[1], o[2], o[3])

MainNext ==
    \/ MainLoad
    \/ MainFrame
    \/ MainEvents_get
    \/ MainEventQuit
    \/ MainEventDown
    \/ MainEventUp
    \/ MainEventResize
    \/ MainEventIgnored
    \/ MainFrameUpdateDrag
    \/ MainFrameHandleInput
    \/ MainCamera
    \/ MainFrameStep
    \/ MainRender
    \/ MainQuit

SpecMain == MainInit /\ [][MainNext]_vars

----------------------------------------------------------------------------
(* Properties of the frame loop, under SpecMain                            *)

IsPrefix(q, r) == Len(q) <= Len(r) /\ \A i \in DOMAIN q : q[i] = r[i]

\* the steps of a frame run in the order of FrameSteps, none skipped and none
\* repeated; every step after the first sees dt > 0; the event batch is
\* exhausted before update_drag runs; a frame that ends has run every step
FrameInOrder ==
    /\ IsPrefix(done, FrameSteps)
    /\ done # <<>> => RLt(R(0), frame_dt)
    /\ pc \in {"poll", "events"} => done = <<"dt">>
    /\ pc \in {"update_drag", "handle_input", "camera", "step", "render"} =>
          /\ events = <<>>
          /\ Len(done) < Len(FrameSteps)
          /\ FrameSteps[Len(done) + 1] = pc
    /\ (pc \in {"tick", "done"} /\ frameno > 0) => done = FrameSteps

\* a pointer-up that ends a drag is handled before the frame's update_drag:
\* the velocity it gives the body is the estimate of the previous frame's
\* update_drag (zero when the drag began in this frame's events)
FlingIsPreviousEstimate ==
    (call'.op = "end_drag" /\ Dragging) =>
        /\ done = <<"dt">>
        /\ body'.velocity = hist.est
        /\ hist.est_frame \in {0, frameno - 1}
        /\ hist.est_frame = 0 => hist.est = V(0, 0)

\* C10: every frame runs compute dt (made > 0), handle all pending events,
\* update_drag, handle_input, camera smoothing, physics step, render, in this
\* order and each once; a pointer-up ends the drag before the frame's
\* update_drag, flinging the previous frame's estimate.
C10_FrameOrder == []FrameInOrder /\ [][FlingIsPreviousEstimate]_vars

\* in the second frame a pointer-up has flung the body with the estimate the
\* first frame's update_drag took with dt replaced by 1e-6
C10_Witness ==
    /\ call.op = "end_drag" /\ frameno = 2
    /\ hist.est_frame = 1
    /\ body.velocity = hist.est
    /\ body.velocity = V(25000000, 0)

\* a pointer-down that starts a drag finds the control point at rest, and a
\* pointer-up that ends a drag no update_drag has touched (both were in this
\* frame's events) leaves the body at rest
ClickWithoutMove ==
    /\ (call'.op = "start_drag" /\ ~Dragging /\ Dragging') =>
           mouse_body'.velocity = V(0, 0)
    /\ (call'.op = "end_drag" /\ Dragging /\ hist.est_frame = 0) =>
           /\ done = <<"dt">>
           /\ body'.velocity = V(0, 0)

\* C13: a drag started and ended with no update_drag in between (pointer-down
\* on the shape and pointer-up in the same frame's events) sets the body's
\* velocity to (0, 0) whatever it was before the click, the control point's
\* velocity being zero at the start of every drag.
C13_ClickWithoutMoveStops == [][ClickWithoutMove]_vars

\* in the second frame the body, falling with the velocity (0, -15) of the
\* first frame's physics step (hist.shadow), was clicked and released in
\* one batch of events and is at rest
C13_Witness ==
    /\ call.op = "end_drag" /\ call.prev = "start_drag"
    /\ frameno = 2
    /\ hist.est_frame = 0
    /\ hist.shadow = V(0, -15)
    /\ ~Dragging
    /\ body.velocity = V(0, 0)

====
